---- MODULE Spec2Model ----
(***************************************************************************)
(* The cleaning pipeline of data/data_cleaning.py: every raw FRED CSV of   *)
(* the raw directory is loaded, the loaded series are outer-joined on the  *)
(* date, the panel is sorted and de-duplicated, resampled to month ends,   *)
(* cut at 1954-01-31, pruned of sparse columns, forward-filled, the USREC  *)
(* column is normalised, all-missing rows are dropped and the panel is     *)
(* written to clean/master_df.csv.                                         *)
(*                                                                         *)
(* A timestamp is the integer (12*year + month-1)*100 + day, so that the   *)
(* order of timestamps is the order of the dates and the month of a        *)
(* timestamp is its quotient by 100.  A raw date cell is the tuple         *)
(* <<year, month, day>> read from "YYYY-MM-DD" text, or <<>> for text that *)
(* is no date; a raw value cell is <<v>> for numeric text and <<>> for     *)
(* text that is no number (FRED writes "." for a missing observation).     *)
(***************************************************************************)
EXTENDS Integers, Sequences, FiniteSets, TLC

VARIABLES
    raw_dir,      \* os.listdir(RAW_DIR): the files, in the order listed
    listing_pos,  \* position of the load loop in raw_dir
    all_series,   \* the dict all_series, in insertion order: <<[sid, df]>>
    errors,       \* the sids reported by "Error loading"
    master_df,    \* the panel (NoneFrame while it is None)
    merge_pos,    \* position of the merge loop in all_series
    pc,           \* the statement the script is at
    clean_file    \* clean/master_df.csv

vars == <<raw_dir, listing_pos, all_series, errors, master_df, merge_pos, pc, clean_file>>

(***************************************************************************)
(* Bounds of the model and the sampled inputs.                             *)
(***************************************************************************)
MaxRows == 2     \* rows of the raw files of a data listing, all files together
MaxFiles == 3    \* files of a batch listing

\* Dates of the raw rows: one before the cut, two in the month of the cut,
\* one in each of the two months after it.
InputDates ==
    { <<1953, 12, 10>>, <<1954, 1, 10>>, <<1954, 1, 20>>, <<1954, 2, 10>>, <<1954, 3, 10>> }

BlankCell == <<>>

NaT == -1    \* pd.NaT, the missing date (no timestamp is negative)
NaN == -1    \* the missing value (no observation is negative)

Range(s) == { s[k] : k \in DOMAIN s }

(***************************************************************************)
(* The series identifiers (data_collection_cleaning.py, FRED_SERIES).      *)
(***************************************************************************)
YieldIds == { "DGS3MO", "DGS1", "DGS2", "DGS5", "DGS7", "DGS10", "DGS20", "DGS30" }

\* c.startswith("DGS"), over the identifiers of FRED_SERIES
StartsWithDGS(c) == c \in YieldIds

DataSids == { "DGS10", "USREC", "UNRATE" }
BatchSids == DataSids \cup { "CPIAUCSL" }

\* USREC is the 0/1 recession indicator; the other series are sampled at 1, 2.
SampleValues(sid) == IF sid = "USREC" THEN {0, 1} ELSE {1, 2}

(***************************************************************************)
(* The calendar.                                                           *)
(***************************************************************************)
IsLeap(y) == (y % 4 = 0 /\ y % 100 # 0) \/ y % 400 = 0

DaysInMonth(y, m) ==
    IF m \in {1, 3, 5, 7, 8, 10, 12} THEN 31
    ELSE IF m = 2 THEN (IF IsLeap(y) THEN 29 ELSE 28)
    ELSE 30

Timestamp(y, m, d) == (12 * y + (m - 1)) * 100 + d

MonthOf(ts) == ts \div 100

\* the label resample("M") gives the bin of month mi: its last day
MonthEnd(mi) == mi * 100 + DaysInMonth(mi \div 12, (mi % 12) + 1)

\* pd.to_datetime(..., errors="coerce")
ToDatetime(cell) ==
    IF /\ Len(cell) = 3
       /\ cell[2] \in 1..12
       /\ cell[3] \in 1..DaysInMonth(cell[1], cell[2])
    THEN Timestamp(cell[1], cell[2], cell[3])
    ELSE NaT

\* pd.to_numeric(..., errors="coerce")
ToNumeric(cell) == IF Len(cell) = 1 THEN cell[1] ELSE NaN

\* master_df.loc["1954-01-31":]
CutoffDate == ToDatetime(<<1954, 1, 31>>)

\* threshold = 0.95, as the fraction ThresholdNum / ThresholdDen
ThresholdNum == 95
ThresholdDen == 100

(***************************************************************************)
(* Frames.  A frame is [cols, rows]: cols the value columns in order, rows *)
(* a sequence of [date, v] with v a function from the columns to values.   *)
(***************************************************************************)
NoneFrame == [isNone |-> TRUE, cols |-> <<>>, rows |-> <<>>]

Frame(cols, rows) == [isNone |-> FALSE, cols |-> cols, rows |-> rows]

Dates(rows) == { rows[k].date : k \in DOMAIN rows }

RECURSIVE SortedSeq(_)
SortedSeq(S) ==
    IF S = {} THEN <<>>
    ELSE LET m == CHOOSE x \in S : \A y \in S : x <= y
         IN <<m>> \o SortedSeq(S \ {m})

RECURSIVE Flatten(_)
Flatten(ss) == IF ss = <<>> THEN <<>> ELSE Head(ss) \o Flatten(Tail(ss))

(***************************************************************************)
(* load_and_clean_fred_series                                              *)
(***************************************************************************)
EndsWithCsv(filename) == filename[2] = ".csv"

\* filename.replace(".csv", "") and os.path.basename(path).split(".")[0]:
\* the stem, the identifiers of FRED_SERIES holding no dot
SidOf(filename) == filename[1]

\* the mutant of DropNaDate: dropna() without subset=["date"]
DropNaAny(rows) == SelectSeq(rows, LAMBDA r : r.date # NaT /\ r.v # NaN)

\* df.dropna(subset=["date"]), on rows <<date, value>>
DropNaDate(rows) == SelectSeq(rows, LAMBDA r : r.date # NaT)

ParseRows(rows) ==
    [k \in 1..Len(rows) |-> [date |-> ToDatetime(rows[k][1]), v |-> ToNumeric(rows[k][2])]]

\* [raised, df]: raised when df.shape[1] < 2
LoadAndCleanFredSeries(file) ==
    IF file.ncols < 2
    THEN [raised |-> TRUE, df |-> NoneFrame]
    ELSE LET sid == SidOf(file.filename)
             kept == DropNaDate(ParseRows(file.rows))
         IN [raised |-> FALSE,
             df |-> Frame(<<sid>>,
                          [k \in 1..Len(kept) |->
                              [date |-> kept[k].date, v |-> (sid :> kept[k].v)]])]

(***************************************************************************)
(* master_df.merge(df, on="date", how="outer")                             *)
(***************************************************************************)
RowsWithDate(rows, d) == SelectSeq(rows, LAMBDA r : r.date = d)

NaNRow(cols) == [c \in Range(cols) |-> NaN]

JoinValues(lv, rv) ==
    [c \in DOMAIN lv \cup DOMAIN rv |-> IF c \in DOMAIN lv THEN lv[c] ELSE rv[c]]

\* the rows of one key: every left row with every right row, left-major; a
\* side without the key gives one row of missing values
KeyProduct(left, right, d) ==
    LET lr == RowsWithDate(left.rows, d)
        rr == RowsWithDate(right.rows, d)
        L == IF lr = <<>> THEN <<NaNRow(left.cols)>> ELSE [k \in 1..Len(lr) |-> lr[k].v]
        R == IF rr = <<>> THEN <<NaNRow(right.cols)>> ELSE [k \in 1..Len(rr) |-> rr[k].v]
    IN [k \in 1..(Len(L) * Len(R)) |->
           [date |-> d,
            v |-> JoinValues(L[((k - 1) \div Len(R)) + 1], R[((k - 1) % Len(R)) + 1])]]

\* the mutant of MergeOuter: how="left"
MergeLeft(left, right) ==
    LET keys == SortedSeq(Dates(left.rows))
    IN Frame(left.cols \o right.cols,
             Flatten([i \in 1..Len(keys) |-> KeyProduct(left, right, keys[i])]))

MergeOuter(left, right) ==
    LET keys == SortedSeq(Dates(left.rows) \cup Dates(right.rows))
    IN Frame(left.cols \o right.cols,
             Flatten([i \in 1..Len(keys) |-> KeyProduct(left, right, keys[i])]))

\* the merge loop, run to its end over a sequence of loaded series
RECURSIVE MergeAll(_, _)
MergeAll(master, series) ==
    IF series = <<>> THEN master
    ELSE MergeAll(IF master.isNone THEN Head(series).df
                  ELSE MergeOuter(master, Head(series).df),
                  Tail(series))

(***************************************************************************)
(* sort_values("date").drop_duplicates("date").reset_index(drop=True)      *)
(* sort_values sorts with the default kind, quicksort, which is not        *)
(* stable: the order of the rows of one date after the sort is any order,  *)
(* and drop_duplicates keeps the first of them.  keep gives, for every     *)
(* date, the index of the row the sort puts first.                         *)
(***************************************************************************)
Keeps(rows) ==
    { keep \in [Dates(rows) -> DOMAIN rows] : \A d \in Dates(rows) : rows[keep[d]].date = d }

\* the mutant of SortDropDuplicates: the sort without drop_duplicates
SortOnly(rows, keep) ==
    LET keys == SortedSeq(Dates(rows))
    IN Flatten([i \in 1..Len(keys) |-> RowsWithDate(rows, keys[i])])

SortDropDuplicates(rows, keep) ==
    LET keys == SortedSeq(Dates(rows))
    IN [i \in 1..Len(keys) |-> rows[keep[keys[i]]]]

(***************************************************************************)
(* set_index("date").resample("M").last()                                  *)
(***************************************************************************)
\* the mutant of LastValid: the last row of the month, missing or not
LastRowValue(rows, mi, c, k) ==
    LET inMonth == { i \in 1..k : MonthOf(rows[i].date) = mi }
    IN IF inMonth = {} THEN NaN
       ELSE rows[CHOOSE i \in inMonth : \A j \in inMonth : j <= i].v[c]

\* GroupBy.last over the rows 1..k of the month mi: the last value that is
\* not missing, scanning the sorted rows backwards
RECURSIVE LastValid(_, _, _, _)
LastValid(rows, mi, c, k) ==
    IF k = 0 THEN NaN
    ELSE IF MonthOf(rows[k].date) = mi /\ rows[k].v[c] # NaN THEN rows[k].v[c]
    ELSE LastValid(rows, mi, c, k - 1)

ResampleLast(frame) ==
    IF frame.rows = <<>> THEN frame
    ELSE LET lo == MonthOf(frame.rows[1].date)
             hi == MonthOf(frame.rows[Len(frame.rows)].date)
         IN Frame(frame.cols,
                  [k \in 1..(hi - lo + 1) |->
                      [date |-> MonthEnd(lo + k - 1),
                       v |-> [c \in Range(frame.cols) |->
                                 LastValid(frame.rows, lo + k - 1, c, Len(frame.rows))]]])

(***************************************************************************)
(* The curation of the panel (lines 80-91).                                *)
(***************************************************************************)
\* the mutant of CutoffRows: no cut
CutoffNone(rows) == rows

\* master_df.loc["1954-01-31":]
CutoffRows(rows) == SelectSeq(rows, LAMBDA r : r.date >= CutoffDate)

RECURSIVE MissingCount(_, _, _)
MissingCount(rows, c, k) ==
    IF k = 0 THEN 0
    ELSE MissingCount(rows, c, k - 1) + (IF rows[k].v[c] = NaN THEN 1 ELSE 0)

\* master_df.isna().mean() < threshold; the mean of no row is NaN, and
\* NaN < threshold is False
IsDense(rows, c) ==
    /\ Len(rows) > 0
    /\ MissingCount(rows, c, Len(rows)) * ThresholdDen < ThresholdNum * Len(rows)

\* master_df.loc[:, mask]: the columns of the set kept, in their order
KeepCols(frame, kept) ==
    LET cols == SelectSeq(frame.cols, LAMBDA c : c \in kept)
    IN Frame(cols,
             [k \in 1..Len(frame.rows) |->
                 [date |-> frame.rows[k].date,
                  v |-> [c \in Range(cols) |-> frame.rows[k].v[c]]]])

DenseCols(frame) == { c \in Range(frame.cols) : IsDense(frame.rows, c) }

PruneSparse(frame) == KeepCols(frame, DenseCols(frame))

\* the mutant of IsMacro: USREC not excluded
IsNotYield(c) == ~StartsWithDGS(c)

\* macro_cols: c not in yield_cols and c != "USREC"
IsMacro(c) == ~StartsWithDGS(c) /\ c # "USREC"

\* the mutant of FfillValue: no fill
NoFillValue(rows, c, k) == rows[k].v[c]

\* the value ffill gives row k of column c
RECURSIVE FfillValue(_, _, _)
FfillValue(rows, c, k) ==
    IF rows[k].v[c] # NaN \/ k = 1 THEN rows[k].v[c]
    ELSE FfillValue(rows, c, k - 1)

\* master_df[cols] = master_df[cols].ffill(), cols the columns of the set
Ffill(frame, cols) ==
    Frame(frame.cols,
          [k \in 1..Len(frame.rows) |->
              [date |-> frame.rows[k].date,
               v |-> [c \in Range(frame.cols) |->
                         IF c \in cols THEN FfillValue(frame.rows, c, k)
                         ELSE frame.rows[k].v[c]]]])

\* yield_cols
YieldCols(frame) == { c \in Range(frame.cols) : StartsWithDGS(c) }

\* macro_cols
MacroCols(frame) == { c \in Range(frame.cols) : IsMacro(c) }

\* astype(int) truncates; the values of the model are whole numbers
AsInt(v) == v

\* master_df["USREC"].fillna(0).astype(int)
NormalizeRecession(frame) ==
    IF "USREC" \notin Range(frame.cols) THEN frame
    ELSE Frame(frame.cols,
               [k \in 1..Len(frame.rows) |->
                   [date |-> frame.rows[k].date,
                    v |-> [c \in Range(frame.cols) |->
                              IF c = "USREC"
                              THEN AsInt(IF frame.rows[k].v[c] = NaN THEN 0
                                         ELSE frame.rows[k].v[c])
                              ELSE frame.rows[k].v[c]]]])

\* the mutant of DropAllMissing: dropna(how="any")
DropAnyMissing(frame) ==
    Frame(frame.cols,
          SelectSeq(frame.rows, LAMBDA r : \A c \in Range(frame.cols) : r.v[c] # NaN))

\* master_df.dropna(how="all")
DropAllMissing(frame) ==
    Frame(frame.cols,
          SelectSeq(frame.rows, LAMBDA r : \E c \in Range(frame.cols) : r.v[c] # NaN))

(***************************************************************************)
(* The raw directory.  A file is [filename, ncols, rows]: filename the     *)
(* pair <<stem, extension>>, ncols the columns read_csv finds, rows the    *)
(* first two cells of each data row.                                       *)
(***************************************************************************)
RawRows(sid) ==
    { <<d, v>> : d \in InputDates \cup {BlankCell},
                 v \in { <<x>> : x \in SampleValues(sid) } \cup {BlankCell} }

RowSeqs(sid, n) == [1..n -> RawRows(sid)]

CsvFile(sid, ncols, rows) == [filename |-> <<sid, ".csv">>, ncols |-> ncols, rows |-> rows]

OtherFile(sid) == [filename |-> <<sid, ".txt">>, ncols |-> 2, rows |-> <<>>]

\* one two-column file of up to MaxRows rows
SingleListing(l) ==
    \E s \in DataSids : \E n \in 0..MaxRows : \E r \in RowSeqs(s, n) :
        l = <<CsvFile(s, 2, r)>>

\* two two-column files of up to MaxRows rows together
PairListing(l) ==
    \E s1 \in DataSids : \E s2 \in DataSids \ {s1} :
        \E n1 \in 0..MaxRows : \E n2 \in 0..(MaxRows - n1) :
            \E r1 \in RowSeqs(s1, n1) : \E r2 \in RowSeqs(s2, n2) :
                l = <<CsvFile(s1, 2, r1), CsvFile(s2, 2, r2)>>

SampleRows(sid) == << << <<1954, 1, 10>>, <<1>> >> >>

\* the files of a batch listing: a file that is no CSV, a CSV of one column,
\* and CSVs of two and of three columns holding one row
BatchFiles ==
    UNION { { OtherFile(s), CsvFile(s, 1, <<>>),
              CsvFile(s, 2, SampleRows(s)), CsvFile(s, 3, SampleRows(s)) } :
            s \in BatchSids }

\* up to MaxFiles files of distinct names, in any order
BatchListing(l) ==
    \E n \in 0..MaxFiles : \E b \in [1..n -> BatchFiles] :
        /\ \A i, j \in 1..n : i # j => SidOf(b[i].filename) # SidOf(b[j].filename)
        /\ l = b

NoFile == [written |-> FALSE, cols |-> <<>>, rows |-> <<>>]

\* the statement after the load loop: the merge loop, or line 70 when
\* all_series is empty
AfterLoad(pos, loaded) ==
    IF pos <= Len(raw_dir) THEN "load"
    ELSE IF loaded = <<>> THEN "sort" ELSE "merge"

Init ==
    /\ \/ SingleListing(raw_dir)
       \/ PairListing(raw_dir)
       \/ BatchListing(raw_dir)
    /\ listing_pos = 1
    /\ all_series = <<>>
    /\ errors = <<>>
    /\ master_df = NoneFrame
    /\ merge_pos = 1
    /\ pc = AfterLoad(1, <<>>)
    /\ clean_file = NoFile

(***************************************************************************)
(* Lines 51-60: one turn of the load loop.                                 *)
(***************************************************************************)
\* the mutant of AfterError: the exception leaves the loop
AfterErrorBreak(pos) == Len(raw_dir) + 1

\* except Exception: the error is printed and the loop goes on
AfterError(pos) == pos + 1

LoadNext ==
    /\ pc = "load"
    /\ listing_pos <= Len(raw_dir)
    /\ LET file == raw_dir[listing_pos]
           sid == SidOf(file.filename)
           res == LoadAndCleanFredSeries(file)
       IN IF ~EndsWithCsv(file.filename)
          THEN /\ listing_pos' = listing_pos + 1
               /\ UNCHANGED <<all_series, errors>>
          ELSE IF res.raised
          THEN /\ listing_pos' = AfterError(listing_pos)
               /\ errors' = Append(errors, sid)
               /\ UNCHANGED all_series
          ELSE /\ listing_pos' = listing_pos + 1
               /\ all_series' = Append(all_series, [sid |-> sid, df |-> res.df])
               /\ UNCHANGED errors
    /\ pc' = AfterLoad(listing_pos', all_series')
    /\ UNCHANGED <<raw_dir, master_df, merge_pos, clean_file>>

(***************************************************************************)
(* Lines 64-68: one turn of the merge loop.                                *)
(***************************************************************************)
MergeNext ==
    /\ pc = "merge"
    /\ merge_pos <= Len(all_series)
    /\ master_df' = IF master_df.isNone THEN all_series[merge_pos].df
                    ELSE MergeOuter(master_df, all_series[merge_pos].df)
    /\ merge_pos' = merge_pos + 1
    /\ pc' = IF merge_pos' <= Len(all_series) THEN "merge" ELSE "sort"
    /\ UNCHANGED <<raw_dir, listing_pos, all_series, errors, clean_file>>

(***************************************************************************)
(* Line 70.  master_df is None when no series was loaded, and the call of  *)
(* sort_values raises AttributeError, which nothing catches.               *)
(***************************************************************************)
\* the mutant of AfterMergeLoop: no series, an empty file is written
AfterMergeLoopSave(master) == IF master.isNone THEN "save" ELSE "resample"

AfterMergeLoop(master) == IF master.isNone THEN "crashed" ELSE "resample"

SortValuesDropDuplicates ==
    /\ pc = "sort"
    /\ pc' = AfterMergeLoop(master_df)
    /\ IF master_df.isNone
       THEN UNCHANGED master_df
       ELSE \E keep \in Keeps(master_df.rows) :
               master_df' = Frame(master_df.cols, SortDropDuplicates(master_df.rows, keep))
    /\ UNCHANGED <<raw_dir, listing_pos, all_series, errors, merge_pos, clean_file>>

(***************************************************************************)
(* Lines 74-75.                                                            *)
(***************************************************************************)
Resample ==
    /\ pc = "resample"
    /\ master_df' = ResampleLast(master_df)
    /\ pc' = "cutoff"
    /\ UNCHANGED <<raw_dir, listing_pos, all_series, errors, merge_pos, clean_file>>

(***************************************************************************)
(* Lines 80-81.  idxmax of line 80 raises ValueError on a panel of no row. *)
(***************************************************************************)
Cutoff ==
    /\ pc = "cutoff"
    /\ IF master_df.rows = <<>>
       THEN pc' = "crashed" /\ UNCHANGED master_df
       ELSE /\ master_df' = Frame(master_df.cols, CutoffRows(master_df.rows))
            /\ pc' = "prune"
    /\ UNCHANGED <<raw_dir, listing_pos, all_series, errors, merge_pos, clean_file>>

(***************************************************************************)
(* Lines 82-83.                                                            *)
(***************************************************************************)
Prune ==
    /\ pc = "prune"
    /\ master_df' = PruneSparse(master_df)
    /\ pc' = "ffill_yield"
    /\ UNCHANGED <<raw_dir, listing_pos, all_series, errors, merge_pos, clean_file>>

(***************************************************************************)
(* Lines 84-85.                                                            *)
(***************************************************************************)
FfillYield ==
    /\ pc = "ffill_yield"
    /\ master_df' = Ffill(master_df, YieldCols(master_df))
    /\ pc' = "ffill_macro"
    /\ UNCHANGED <<raw_dir, listing_pos, all_series, errors, merge_pos, clean_file>>

(***************************************************************************)
(* Lines 86-88.                                                            *)
(***************************************************************************)
FfillMacro ==
    /\ pc = "ffill_macro"
    /\ master_df' = Ffill(master_df, MacroCols(master_df))
    /\ pc' = "usrec"
    /\ UNCHANGED <<raw_dir, listing_pos, all_series, errors, merge_pos, clean_file>>

(***************************************************************************)
(* Lines 89-90.                                                            *)
(***************************************************************************)
FillRecession ==
    /\ pc = "usrec"
    /\ master_df' = NormalizeRecession(master_df)
    /\ pc' = "dropna"
    /\ UNCHANGED <<raw_dir, listing_pos, all_series, errors, merge_pos, clean_file>>

(***************************************************************************)
(* Line 91.                                                                *)
(***************************************************************************)
DropEmptyRows ==
    /\ pc = "dropna"
    /\ master_df' = DropAllMissing(master_df)
    /\ pc' = "save"
    /\ UNCHANGED <<raw_dir, listing_pos, all_series, errors, merge_pos, clean_file>>

(***************************************************************************)
(* Lines 93-94.                                                            *)
(***************************************************************************)
Save ==
    /\ pc = "save"
    /\ clean_file' = [written |-> TRUE, cols |-> master_df.cols, rows |-> master_df.rows]
    /\ pc' = "done"
    /\ UNCHANGED <<raw_dir, listing_pos, all_series, errors, master_df, merge_pos>>

Next ==
    \/ LoadNext
    \/ MergeNext
    \/ SortValuesDropDuplicates
    \/ Resample
    \/ Cutoff
    \/ Prune
    \/ FfillYield
    \/ FfillMacro
    \/ FillRecession
    \/ DropEmptyRows
    \/ Save

Spec == Init /\ [][Next]_vars

(***************************************************************************)
(* What the properties below speak of.                                     *)
(***************************************************************************)
IsCsvAt(i) == EndsWithCsv(raw_dir[i].filename)

ValidSids == { SidOf(raw_dir[i].filename) : i \in { j \in DOMAIN raw_dir : IsCsvAt(j) /\ raw_dir[j].ncols >= 2 } }

MalformedSids == { SidOf(raw_dir[i].filename) : i \in { j \in DOMAIN raw_dir : IsCsvAt(j) /\ raw_dir[j].ncols < 2 } }

LoadedSids == { all_series[k].sid : k \in DOMAIN all_series }

LoadedDates == UNION { Dates(all_series[k].df.rows) : k \in DOMAIN all_series }

\* the loaded series sid has an observation that is not missing in month mi
ObservedIn(sid, mi) ==
    \E k \in DOMAIN all_series :
        /\ all_series[k].sid = sid
        /\ \E i \in DOMAIN all_series[k].df.rows :
              /\ MonthOf(all_series[k].df.rows[i].date) = mi
              /\ all_series[k].df.rows[i].v[sid] # NaN

RowBag(rows) == [r \in Range(rows) |-> Cardinality({ k \in DOMAIN rows : rows[k] = r })]

SamePanel(f, g) == Range(f.cols) = Range(g.cols) /\ RowBag(f.rows) = RowBag(g.rows)

Reverse(s) == [k \in 1..Len(s) |-> s[Len(s) + 1 - k]]

Restrict(rows, cols) ==
    [k \in 1..Len(rows) |-> [date |-> rows[k].date, v |-> [c \in cols |-> rows[k].v[c]]]]

LastIndexOf(rows, d) ==
    CHOOSE i \in DOMAIN rows : rows[i].date = d /\ \A j \in DOMAIN rows : rows[j].date = d => j <= i

\* ts is a date, and the day after it is none of the same month
IsLastDayOfMonth(ts) ==
    LET y == MonthOf(ts) \div 12
        m == (MonthOf(ts) % 12) + 1
        d == ts % 100
    IN ToDatetime(<<y, m, d>>) = ts /\ ToDatetime(<<y, m, d + 1>>) = NaT

ResampledFrom(in, out, cols) ==
    IF in = <<>> THEN out = <<>>
    ELSE LET lo == MonthOf(CHOOSE d \in Dates(in) : \A e \in Dates(in) : d <= e)
             hi == MonthOf(CHOOSE d \in Dates(in) : \A e \in Dates(in) : e <= d)
         IN /\ Len(out) = hi - lo + 1
            /\ \A k \in DOMAIN out :
                  /\ MonthOf(out[k].date) = lo + k - 1
                  /\ IsLastDayOfMonth(out[k].date)
                  /\ \A c \in cols :
                        LET cand == { i \in DOMAIN in :
                                        MonthOf(in[i].date) = lo + k - 1 /\ in[i].v[c] # NaN }
                        IN out[k].v[c] =
                              IF cand = {} THEN NaN
                              ELSE in[CHOOSE i \in cand : \A j \in cand : in[j].date <= in[i].date].v[c]

MissingRows(rows, c) == { k \in DOMAIN rows : rows[k].v[c] = NaN }

BelowThreshold(rows, c) ==
    /\ rows # <<>>
    /\ ThresholdDen * Cardinality(MissingRows(rows, c)) < ThresholdNum * Len(rows)

RecessionClean(frame) ==
    "USREC" \in Range(frame.cols) =>
       \A k \in DOMAIN frame.rows :
          /\ frame.rows[k].v["USREC"] \in {0, 1}
          /\ ~ObservedIn("USREC", MonthOf(frame.rows[k].date)) => frame.rows[k].v["USREC"] = 0

FilledFrom(old, new, class) ==
    /\ new.cols = old.cols
    /\ Len(new.rows) = Len(old.rows)
    /\ \A k \in DOMAIN old.rows :
          /\ new.rows[k].date = old.rows[k].date
          /\ \A c \in Range(old.cols) :
                LET prev == { j \in 1..k : old.rows[j].v[c] # NaN }
                IN new.rows[k].v[c] =
                      IF c \notin class \/ prev = {} THEN old.rows[k].v[c]
                      ELSE old.rows[CHOOSE j \in prev : \A i \in prev : i <= j].v[c]

MissingOnlyAtStart(frame) ==
    \A c \in Range(frame.cols) \ {"USREC"} :
       \A k \in DOMAIN frame.rows :
          frame.rows[k].v[c] = NaN => \A j \in 1..k : frame.rows[j].v[c] = NaN

FileOf(sid) == raw_dir[CHOOSE i \in DOMAIN raw_dir : SidOf(raw_dir[i].filename) = sid]

ExpectedMonthEnds ==
    IF LoadedDates = {} THEN {}
    ELSE LET lo == MonthOf(CHOOSE d \in LoadedDates : \A e \in LoadedDates : d <= e)
             hi == MonthOf(CHOOSE d \in LoadedDates : \A e \in LoadedDates : e <= d)
         IN { MonthEnd(mi) : mi \in { m \in lo..hi : MonthEnd(m) >= CutoffDate } }

(***************************************************************************)
(* C1.  Once the load loop has ended, the series loaded are exactly the    *)
(* CSV files of two or more columns, whether listed before or after a      *)
(* malformed file, the files reported are exactly the CSV files of fewer   *)
(* than two columns, and the merged panel has exactly the columns of the   *)
(* loaded series: a malformed file gives no column and stops nothing.      *)
(***************************************************************************)
C1_MalformedFileSkipped ==
    /\ pc # "load" => /\ LoadedSids = ValidSids
                      /\ Range(errors) = MalformedSids
                      /\ Len(all_series) = Cardinality(ValidSids)
    /\ (pc \in {"resample", "cutoff", "prune"} \/ (pc = "sort" /\ ValidSids # {}))
          => /\ ~master_df.isNone
             /\ Range(master_df.cols) = ValidSids
             /\ Range(master_df.cols) \cap MalformedSids = {}

C1_Witness ==
    /\ pc = "resample"
    /\ \E i, j, k \in DOMAIN raw_dir :
          /\ i < j /\ j < k
          /\ IsCsvAt(i) /\ raw_dir[i].ncols >= 2
          /\ IsCsvAt(j) /\ raw_dir[j].ncols < 2
          /\ IsCsvAt(k) /\ raw_dir[k].ncols >= 2
          /\ SidOf(raw_dir[j].filename) \in Range(errors)
          /\ { SidOf(raw_dir[i].filename), SidOf(raw_dir[k].filename) } \subseteq Range(master_df.cols)

(***************************************************************************)
(* C2.  When the merge loop has ended: for any two loaded series A and B,  *)
(* merging A then B gives the same dates and the same values for every     *)
(* date and series as merging B then A; merging the loaded series in the   *)
(* reverse order gives the panel the loop built; and merging the panel     *)
(* with a series of no rows leaves its dates and values as they are (the   *)
(* new column is missing in every row).                                    *)
(***************************************************************************)
C2_MergeOrderIndependent ==
    pc = "sort" =>
      /\ \A a, b \in Range(all_series) :
            a.sid # b.sid => SamePanel(MergeOuter(a.df, b.df), MergeOuter(b.df, a.df))
      /\ ~master_df.isNone =>
            /\ SamePanel(master_df, MergeAll(NoneFrame, Reverse(all_series)))
            /\ \A s \in BatchSids \ Range(master_df.cols) :
                  LET m == MergeOuter(master_df, Frame(<<s>>, <<>>))
                  IN /\ RowBag(Restrict(m.rows, Range(master_df.cols))) = RowBag(master_df.rows)
                     /\ \A k \in DOMAIN m.rows : m.rows[k].v[s] = NaN

C2_Witness ==
    /\ pc = "sort"
    /\ Len(all_series) = 2
    /\ Dates(all_series[1].df.rows) \ Dates(all_series[2].df.rows) # {}
    /\ Dates(all_series[2].df.rows) \ Dates(all_series[1].df.rows) # {}
    /\ Len(master_df.rows) = 2

(***************************************************************************)
(* C3 as claimed.  After line 70, every loaded series has unique dates and *)
(* the panel holds, for every date of a series, the value of the last row  *)
(* of that date in the file.                                               *)
(***************************************************************************)
C3_LastWriteWins ==
    pc = "resample" =>
      \A n \in DOMAIN all_series :
         LET sid == all_series[n].sid
             rows == all_series[n].df.rows
         IN /\ Cardinality(Dates(rows)) = Len(rows)
            /\ \A k \in DOMAIN master_df.rows :
                  master_df.rows[k].date \in Dates(rows) =>
                     master_df.rows[k].v[sid] = rows[LastIndexOf(rows, master_df.rows[k].date)].v[sid]

(***************************************************************************)
(* C3 as amended.  After line 70 the panel has one row for every date of   *)
(* the loaded series, in ascending order, and the value it holds for a     *)
(* date and a series is the value of one of the rows of that date in the   *)
(* file (missing when the series has no row of that date): the row the     *)
(* sort puts first is kept, which need not be the last row of the file.    *)
(***************************************************************************)
C3_KeptRowIsOneOfTheDate ==
    pc = "resample" =>
      /\ Dates(master_df.rows) = LoadedDates
      /\ \A k \in 1..(Len(master_df.rows) - 1) : master_df.rows[k].date < master_df.rows[k + 1].date
      /\ \A n \in DOMAIN all_series :
            LET sid == all_series[n].sid
                rows == all_series[n].df.rows
            IN \A k \in DOMAIN master_df.rows :
                  master_df.rows[k].v[sid] \in
                     IF master_df.rows[k].date \in Dates(rows)
                     THEN { rows[i].v[sid] : i \in { j \in DOMAIN rows : rows[j].date = master_df.rows[k].date } }
                     ELSE {NaN}

\* a file holds two rows of one date with different values, and the panel
\* holds the value of the first
C3_Witness ==
    /\ pc = "resample"
    /\ \E n \in DOMAIN all_series :
          LET sid == all_series[n].sid
              rows == all_series[n].df.rows
          IN \E i, j \in DOMAIN rows :
                /\ i < j
                /\ rows[i].date = rows[j].date
                /\ rows[i].v[sid] # rows[j].v[sid]
                /\ j = LastIndexOf(rows, rows[j].date)
                /\ \E k \in DOMAIN master_df.rows :
                      /\ master_df.rows[k].date = rows[i].date
                      /\ master_df.rows[k].v[sid] = rows[i].v[sid]

(***************************************************************************)
(* C4.  The step of lines 74-75 turns the aligned panel into a panel with  *)
(* exactly one row for every calendar month from the month of the earliest *)
(* date to the month of the latest, stamped at the month's last day,       *)
(* months without input row included; the value of a column in a month is  *)
(* the value that is not missing of the latest date within the month, and  *)
(* missing when the month has no such value.                               *)
(***************************************************************************)
C4_ResampleMonthEndLast ==
    [][pc = "resample" =>
         /\ master_df'.cols = master_df.cols
         /\ ResampledFrom(master_df.rows, master_df'.rows, Range(master_df.cols))]_vars

\* resampled: a month between two months of input has no input row at all
\* and is a row of missing values
C4_Witness ==
    /\ pc = "cutoff"
    /\ \E k \in DOMAIN master_df.rows :
          /\ 1 < k /\ k < Len(master_df.rows)
          /\ \A d \in LoadedDates : MonthOf(d) # MonthOf(master_df.rows[k].date)
          /\ \A c \in Range(master_df.cols) : master_df.rows[k].v[c] = NaN
          /\ \E c \in Range(master_df.cols) : master_df.rows[k - 1].v[c] # NaN

(***************************************************************************)
(* C5.  The pruning step of lines 82-83 runs on a panel whose every row is *)
(* dated at the anchor date or later, keeps the rows, and keeps exactly    *)
(* the columns whose fraction of missing values over these rows is below   *)
(* 0.95 (with no row left after the cut the fraction is undefined and      *)
(* every column is dropped): no surviving column has a missing fraction of *)
(* 0.95 or more, and no row before the anchor date is counted.             *)
(***************************************************************************)
C5_PruneAfterCutoff ==
    [][pc = "prune" =>
         /\ \A k \in DOMAIN master_df.rows : master_df.rows[k].date >= Timestamp(1954, 1, 31)
         /\ Range(master_df'.cols) = { c \in Range(master_df.cols) : BelowThreshold(master_df.rows, c) }
         /\ master_df'.rows = Restrict(master_df.rows, Range(master_df'.cols))
         /\ \A c \in Range(master_df'.cols) : BelowThreshold(master_df'.rows, c)]_vars

\* pruned: a column observed only before the anchor date is dropped, though
\* over the full history its missing fraction is below the threshold
C5_Witness ==
    /\ pc = "ffill_yield"
    /\ master_df.cols # <<>>
    /\ \E n \in DOMAIN all_series :
          LET sid == all_series[n].sid
              rows == all_series[n].df.rows
          IN /\ sid \notin Range(master_df.cols)
             /\ \E i \in DOMAIN rows : rows[i].date < CutoffDate /\ rows[i].v[sid] # NaN
             /\ \A i \in DOMAIN rows : rows[i].date < CutoffDate \/ rows[i].v[sid] = NaN
             /\ 2 * Cardinality({ mi \in { MonthOf(d) : d \in LoadedDates } : ObservedIn(sid, mi) })
                   >= Cardinality({ MonthOf(d) : d \in LoadedDates })

C7_ForwardFillPerColumn ==
    [][/\ pc = "ffill_yield" =>
             FilledFrom(master_df, master_df', { c \in Range(master_df.cols) : c \in YieldIds })
       /\ pc = "ffill_macro" =>
             FilledFrom(master_df, master_df',
                        { c \in Range(master_df.cols) : c \notin YieldIds /\ c # "USREC" })
       /\ pc' \in {"usrec", "dropna", "save", "done"} => MissingOnlyAtStart(master_df')]_vars

\* filled: a yield or macro column holds a value in a month in which its
\* series has no observation, and is missing in the first row of another column
C7_Witness ==
    /\ pc = "usrec"
    /\ \E c \in Range(master_df.cols) \ {"USREC"} :
          \E k \in DOMAIN master_df.rows :
             /\ ~ObservedIn(c, MonthOf(master_df.rows[k].date))
             /\ master_df.rows[k].v[c] # NaN
    /\ \E c \in Range(master_df.cols) \ {"USREC"} : master_df.rows[1].v[c] = NaN

(***************************************************************************)
(* C8.  A loaded series holds, in the order of the file, exactly the rows  *)
(* of the file whose date parses: each with its date, never missing, and   *)
(* with its value, which is missing exactly when the value cell is no      *)
(* number.  A row whose date does not parse is in no loaded series.        *)
(***************************************************************************)
C8_LoaderDropsBadDatesKeepsBadValues ==
    \A n \in DOMAIN all_series :
       LET sid == all_series[n].sid
           rows == all_series[n].df.rows
           parseable == SelectSeq(FileOf(sid).rows, LAMBDA r : r[1] \in InputDates)
       IN /\ Len(rows) = Len(parseable)
          /\ \A k \in DOMAIN rows :
                /\ rows[k].date # NaT
                /\ rows[k].date = Timestamp(parseable[k][1][1], parseable[k][1][2], parseable[k][1][3])
                /\ rows[k].v[sid] = IF parseable[k][2] = BlankCell THEN NaN ELSE parseable[k][2][1]
                /\ rows[k].v[sid] \in SampleValues(sid) \cup {NaN}

\* loaded: of a row without date and a row with a date and without value,
\* the series holds the second alone
C8_Witness ==
    /\ pc = "sort"
    /\ \E n \in DOMAIN all_series :
          LET sid == all_series[n].sid
              raw == FileOf(sid).rows
          IN /\ Len(raw) = 2
             /\ raw[1][1] = BlankCell /\ raw[1][2] # BlankCell
             /\ raw[2][1] # BlankCell /\ raw[2][2] = BlankCell
             /\ Len(all_series[n].df.rows) = 1
             /\ all_series[n].df.rows[1].v[sid] = NaN

(***************************************************************************)
(* C9.  With no series loaded (no CSV file in the directory, or every one  *)
(* failing), the script ends in an error after the load loop: the panel is *)
(* never built and the output file is never written.                       *)
(***************************************************************************)
C9_NoSeriesIsFatal ==
    (pc # "load" /\ all_series = <<>>) =>
       /\ pc \in {"sort", "crashed"}
       /\ master_df.isNone
       /\ ~clean_file.written

C9_Witness ==
    /\ pc = "crashed"
    /\ all_series = <<>>
    /\ errors # <<>>
    /\ ~clean_file.written

(***************************************************************************)
(* C10.  When USREC is a column of the written panel, the panel has a row  *)
(* for every month end from the anchor date (or the first month of input,  *)
(* if later) to the last month of input: line 91 removed none, the rows    *)
(* whose only value is the 0 given to USREC included.  A month end of that *)
(* range is absent from the output only when USREC is no column of it.     *)
(***************************************************************************)
C10_RecessionKeepsEveryRow ==
    pc = "done" =>
       /\ "USREC" \in Range(clean_file.cols) =>
             /\ Dates(clean_file.rows) = ExpectedMonthEnds
             /\ Len(clean_file.rows) = Cardinality(ExpectedMonthEnds)
       /\ Dates(clean_file.rows) \subseteq ExpectedMonthEnds

\* written: a row holds the 0 given to USREC and nothing else, beside a
\* column that is missing in it
C10_Witness ==
    /\ pc = "done"
    /\ "USREC" \in Range(clean_file.cols)
    /\ Len(clean_file.cols) >= 2
    /\ \E k \in DOMAIN clean_file.rows :
          /\ ~ObservedIn("USREC", MonthOf(clean_file.rows[k].date))
          /\ clean_file.rows[k].v["USREC"] = 0
          /\ \A c \in Range(clean_file.cols) \ {"USREC"} : clean_file.rows[k].v[c] = NaN

\* written without USREC: a month end of the range of the input is absent
C10_WitnessDropped ==
    /\ pc = "done"
    /\ "USREC" \notin Range(clean_file.cols)
    /\ clean_file.cols # <<>>
    /\ Dates(clean_file.rows) # ExpectedMonthEnds

====
